---- MODULE Spec2Model ----
(***************************************************************************)
(* Weight-triggered dispensing controller (src/code.ino).                  *)
(*                                                                         *)
(* The sketch is a single-threaded polling loop: loop() dispatches on      *)
(* currentMode to exactly one handler per iteration.  One action of this   *)
(* module is one run of one handler, with the answers of the external      *)
(* gateways (keypad, load cell) as its inputs; Tick lets time pass between *)
(* two iterations.                                                         *)
(*                                                                         *)
(* Time.  Every timestamp of the sketch is read only in a comparison       *)
(* millis() - stamp >= K (or > K), so the model keeps, for each stamp, the *)
(* elapsed time millis() - stamp, saturated just above the largest K it is *)
(* compared with (the wrap of millis() after 2^32 ms is not modelled).     *)
(* A stamp that is always rewritten before it is read again is kept only   *)
(* while it is live: tareBeginTime while isTaring, completionTime while    *)
(* FINISHED.                                                               *)
(*                                                                         *)
(* Weights are whole grams: the keypad has no '.' key, so userInput holds  *)
(* digits only (BufferHoldsDigitsOnly) and toFloat yields an integer below *)
(* 10^6, which a float holds exactly.                                      *)
(*                                                                         *)
(* The display and the serial log are write-only outputs; they and the     *)
(* display-refresh stamp previousUpdate (read only at lines 201-208) are   *)
(* not part of the state.                                                  *)
(***************************************************************************)
EXTENDS Integers, Sequences, FiniteSets, TLC

(* ------------------------------------------------------------------ *)
(* Program constants                                                   *)
(* ------------------------------------------------------------------ *)
SENSOR_READ_DELAY == 200
TARE_TIMEOUT == 10000
FINE_TARGET_LIMIT == 600
NEAR_TARGET_WINDOW == 200
FINE_ENTRY_WINDOW == 500
SHORT_PULSE == 20
LONG_PULSE == 80
offTime == 200
COMPLETION_DWELL == 5000
MAX_INPUT_LENGTH == 6

LOW == 0
HIGH == 1

WEIGHT_INPUT == "WEIGHT_INPUT"
ZEROING == "ZEROING"
DISPENSING == "DISPENSING"
FINISHED == "FINISHED"
SystemMode == {WEIGHT_INPUT, ZEROING, DISPENSING, FINISHED}

NO_KEY == "NO_KEY"
keypadButtons == {"1", "2", "3", "4", "5", "6", "7", "8", "9", "*", "0", "#"}
DigitValue ==
  ("0" :> 0) @@ ("1" :> 1) @@ ("2" :> 2) @@ ("3" :> 3) @@ ("4" :> 4) @@
  ("5" :> 5) @@ ("6" :> 6) @@ ("7" :> 7) @@ ("8" :> 8) @@ ("9" :> 9)
isdigit(c) == c \in DOMAIN DigitValue

(* ------------------------------------------------------------------ *)
(* Bounds of the model                                                 *)
(* ------------------------------------------------------------------ *)
\* How many of the ten digit keys the operator uses, in the order of DigitKeyOrder.
NumDigitKeys == 2
DigitKeyOrder == <<"5", "0", "6", "4", "7", "1", "2", "3", "8", "9">>
PressedKeys ==
  ({DigitKeyOrder[i] : i \in 1..NumDigitKeys} \cup {"*", "#"}) \cap keypadButtons
\* Signed readings the load cell may deliver, placed on and around the thresholds
\* target-500, target-200 and target of the targets 500 and 5000.
Readings == {0, 300, -500, 4500, 4600, 5000}
\* Time that passes between two loop iterations, per running handler: values on
\* and around the thresholds that handler compares against.
LoopDelays(mode) ==
  CASE mode = ZEROING -> {TARE_TIMEOUT \div 2, TARE_TIMEOUT \div 2 + 1}
    [] mode = DISPENSING -> {SHORT_PULSE, 3 * SHORT_PULSE}
    [] mode = FINISHED -> {COMPLETION_DWELL \div 2}
    [] OTHER -> {COMPLETION_DWELL}

(* ------------------------------------------------------------------ *)
(* State                                                               *)
(* ------------------------------------------------------------------ *)
VARIABLES
  currentMode,        \* SystemMode currentMode
  desiredWeight,      \* float desiredWeight
  measuredWeight,     \* float measuredWeight
  userInput,          \* String userInput, a sequence of characters
  fineControlMode,    \* bool fineControlMode
  isMotorOn,          \* bool isMotorOn
  motorPin1,          \* level last written to MOTOR_PIN1
  motorPin2,          \* level last written to MOTOR_PIN2
  isTaring,           \* static bool isTaring of performTaring
  tareElapsed,        \* millis() - tareBeginTime, kept while isTaring
  measureElapsed,     \* millis() - lastMeasurement
  isMotorActive,      \* static bool isMotorActive of preciseDispensing
  motorElapsed,       \* millis() - lastMotorChange
  completionElapsed,  \* millis() - completionTime, kept while FINISHED
  zeroingElapsed,     \* history: time since currentMode became ZEROING
  lastKey             \* history: the key of the last "Pressed key: " log line

vars ==
  <<currentMode, desiredWeight, measuredWeight, userInput, fineControlMode,
    isMotorOn, motorPin1, motorPin2, isTaring, tareElapsed, measureElapsed,
    isMotorActive, motorElapsed, completionElapsed, zeroingElapsed, lastKey>>

Min(a, b) == IF a < b THEN a ELSE b

(* ------------------------------------------------------------------ *)
(* Pure helpers                                                        *)
(* ------------------------------------------------------------------ *)
\* String::toFloat on a buffer of digits: the decimal value of the digits.
RECURSIVE toFloat(_)
toFloat(s) ==
  IF s = <<>> THEN 0
  ELSE 10 * toFloat(SubSeq(s, 1, Len(s) - 1)) + DigitValue[s[Len(s)]]

\* The reading taken as it comes.
absKeepingSign(x) == x

abs(x) == IF x > 0 THEN x ELSE -x

CountChar(s, c) == Cardinality({i \in 1..Len(s) : s[i] = c})

(* ------------------------------------------------------------------ *)
(* Initial state: the globals' initialisers and setup()                *)
(* ------------------------------------------------------------------ *)
Init ==
  /\ currentMode = WEIGHT_INPUT
  /\ desiredWeight = 0
  /\ measuredWeight = 0
  /\ userInput = <<>>
  /\ fineControlMode = FALSE
  /\ isMotorOn = FALSE
  /\ motorPin1 = LOW
  /\ motorPin2 = LOW
  /\ isTaring = FALSE
  /\ tareElapsed = 0
  \* lastMeasurement and lastMotorChange start at 0 and setup() spends at least
  \* the 2000 ms of weightSensor.start(2000, true) before the first loop().
  /\ measureElapsed = SENSOR_READ_DELAY
  /\ isMotorActive = FALSE
  /\ motorElapsed = offTime
  /\ completionElapsed = 0
  /\ zeroingElapsed = 0
  /\ lastKey = NO_KEY

(* ------------------------------------------------------------------ *)
(* Motor and reset                                                     *)
(* ------------------------------------------------------------------ *)
\* A reset that forgets to clear the buffer.
restartSystemKeepingInput ==
  /\ desiredWeight' = 0
  /\ measuredWeight' = 0
  /\ userInput' = userInput
  /\ fineControlMode' = FALSE
  /\ motorPin1' = LOW
  /\ motorPin2' = LOW
  /\ isMotorOn' = FALSE
  /\ currentMode' = WEIGHT_INPUT

\* A motor stop that clears the flag and leaves the pins as they are.
turnMotorOffFlagOnly == [pin1 |-> motorPin1, pin2 |-> motorPin2, on |-> FALSE]

\* turnMotorOff(): both pins LOW, isMotorOn false.
turnMotorOff == [pin1 |-> LOW, pin2 |-> LOW, on |-> FALSE]

\* A reset that forgets to clear the target.
restartSystemKeepingTarget ==
  /\ desiredWeight' = desiredWeight
  /\ measuredWeight' = 0
  /\ userInput' = <<>>
  /\ fineControlMode' = FALSE
  /\ motorPin1' = turnMotorOff.pin1
  /\ motorPin2' = turnMotorOff.pin2
  /\ isMotorOn' = turnMotorOff.on
  /\ currentMode' = WEIGHT_INPUT

\* restartSystem(): the whole reset; the statics of the handlers are not touched.
restartSystem ==
  /\ desiredWeight' = 0
  /\ measuredWeight' = 0
  /\ userInput' = <<>>
  /\ fineControlMode' = FALSE
  /\ motorPin1' = turnMotorOff.pin1
  /\ motorPin2' = turnMotorOff.pin2
  /\ isMotorOn' = turnMotorOff.on
  /\ currentMode' = WEIGHT_INPUT

(* ------------------------------------------------------------------ *)
(* WEIGHT_INPUT: processUserInput()                                    *)
(* ------------------------------------------------------------------ *)
\* Accepting a target of zero.
acceptsTargetNonNegative(weight) == weight >= 0

\* if(desiredWeight > 0)
acceptsTarget(weight) == weight > 0

\* A finalize that clears the buffer once the target is accepted.
finalizeInputClearing ==
  IF Len(userInput) > 0
    THEN /\ desiredWeight' = toFloat(userInput)
         /\ currentMode' = IF acceptsTarget(toFloat(userInput)) THEN ZEROING ELSE currentMode
         /\ userInput' = IF acceptsTarget(toFloat(userInput)) THEN <<>> ELSE userInput
    ELSE UNCHANGED <<currentMode, desiredWeight, userInput>>

\* A finalize that starts dispensing without zeroing.
finalizeInputSkippingTare ==
  IF Len(userInput) > 0
    THEN /\ desiredWeight' = toFloat(userInput)
         /\ currentMode' = IF acceptsTarget(toFloat(userInput)) THEN DISPENSING ELSE currentMode
         /\ UNCHANGED userInput
    ELSE UNCHANGED <<currentMode, desiredWeight, userInput>>

\* '#': parse the buffer; a positive target starts ZEROING.  userInput is not
\* assigned on this path.
finalizeInput ==
  IF Len(userInput) > 0
    THEN /\ desiredWeight' = toFloat(userInput)
         /\ currentMode' = IF acceptsTarget(toFloat(userInput)) THEN ZEROING ELSE currentMode
         /\ UNCHANGED userInput
    ELSE UNCHANGED <<currentMode, desiredWeight, userInput>>

\* A cancel that works as a backspace.
cancelInputLastKey ==
  /\ userInput' = SubSeq(userInput, 1, Len(userInput) - 1)
  /\ UNCHANGED <<currentMode, desiredWeight>>

\* '*': userInput = ""
cancelInput ==
  /\ userInput' = <<>>
  /\ UNCHANGED <<currentMode, desiredWeight>>

\* The length check off by one.
acceptsKeyAtLimit(pressedKey) ==
  (isdigit(pressedKey) \/ pressedKey = ".") /\ Len(userInput) <= MAX_INPUT_LENGTH

\* (isdigit(pressedKey) || pressedKey == '.') && userInput.length() < 6
acceptsKey(pressedKey) ==
  (isdigit(pressedKey) \/ pressedKey = ".") /\ Len(userInput) < MAX_INPUT_LENGTH

processUserInput(pressedKey) ==
  /\ currentMode = WEIGHT_INPUT
  /\ IF pressedKey = NO_KEY
       THEN UNCHANGED <<currentMode, desiredWeight, userInput, lastKey>>
       ELSE /\ lastKey' = pressedKey
            /\ IF pressedKey = "#" THEN finalizeInput
               ELSE IF pressedKey = "*" THEN cancelInput
               ELSE IF acceptsKey(pressedKey)
                 THEN /\ userInput' = Append(userInput, pressedKey)
                      /\ UNCHANGED <<currentMode, desiredWeight>>
               ELSE UNCHANGED <<currentMode, desiredWeight, userInput>>
  /\ UNCHANGED <<measuredWeight, fineControlMode, isMotorOn, motorPin1, motorPin2,
                 isTaring, tareElapsed, measureElapsed, isMotorActive, motorElapsed,
                 completionElapsed, zeroingElapsed>>

(* ------------------------------------------------------------------ *)
(* ZEROING: performTaring()                                            *)
(* update and tareStatus are what weightSensor.update() and            *)
(* weightSensor.getTareStatus() answer if this poll calls them.        *)
(* ------------------------------------------------------------------ *)
\* A tare that waits without a limit.
tareNeverTimesOut == FALSE

\* millis() - tareBeginTime > 10000
tareTimedOut == tareElapsed > TARE_TIMEOUT

performTaring(update, tareStatus) ==
  /\ currentMode = ZEROING
  /\ IF ~isTaring
       THEN \* weightSensor.tare(); isTaring = true; tareBeginTime = millis(); return
            /\ isTaring' = TRUE
            /\ tareElapsed' = 0
            /\ UNCHANGED <<currentMode, desiredWeight, measuredWeight, userInput,
                           fineControlMode, isMotorOn, motorPin1, motorPin2,
                           completionElapsed, zeroingElapsed>>
     ELSE IF tareTimedOut
       THEN \* the timeout path: restartSystem(); isTaring stays set
            /\ restartSystem
            /\ zeroingElapsed' = 0
            /\ UNCHANGED <<isTaring, tareElapsed, completionElapsed>>
     ELSE IF update /\ tareStatus
       THEN \* isTaring = false; currentMode = DISPENSING; turnMotorOn()
            /\ isTaring' = FALSE
            /\ tareElapsed' = 0
            /\ currentMode' = DISPENSING
            /\ IF ~fineControlMode
                 THEN motorPin1' = HIGH /\ motorPin2' = LOW
                 ELSE UNCHANGED <<motorPin1, motorPin2>>
            /\ isMotorOn' = TRUE
            /\ zeroingElapsed' = 0
            /\ UNCHANGED <<desiredWeight, measuredWeight, userInput, fineControlMode,
                           completionElapsed>>
     ELSE UNCHANGED <<currentMode, desiredWeight, measuredWeight, userInput,
                      fineControlMode, isMotorOn, motorPin1, motorPin2, isTaring,
                      tareElapsed, completionElapsed, zeroingElapsed>>
  /\ UNCHANGED <<measureElapsed, isMotorActive, motorElapsed, lastKey>>

(* ------------------------------------------------------------------ *)
(* DISPENSING: controlDispensing() and preciseDispensing()             *)
(* ------------------------------------------------------------------ *)
\* A pulsed drive whose off phase is timed with the on-duration.
preciseDispensingShortOff(onTime) ==
  IF isMotorActive
    THEN IF motorElapsed >= onTime
           THEN [pin1 |-> LOW, pin2 |-> motorPin2, active |-> FALSE, elapsed |-> 0]
           ELSE [pin1 |-> motorPin1, pin2 |-> motorPin2, active |-> isMotorActive,
                 elapsed |-> motorElapsed]
    ELSE IF motorElapsed >= onTime
           THEN [pin1 |-> HIGH, pin2 |-> LOW, active |-> TRUE, elapsed |-> 0]
           ELSE [pin1 |-> motorPin1, pin2 |-> motorPin2, active |-> isMotorActive,
                 elapsed |-> motorElapsed]

\* The pulsed drive: the pins, the phase flag and the phase stamp after one call.
preciseDispensing(onTime) ==
  IF isMotorActive
    THEN IF motorElapsed >= onTime
           THEN [pin1 |-> LOW, pin2 |-> motorPin2, active |-> FALSE, elapsed |-> 0]
           ELSE [pin1 |-> motorPin1, pin2 |-> motorPin2, active |-> isMotorActive,
                 elapsed |-> motorElapsed]
    ELSE IF motorElapsed >= offTime
           THEN [pin1 |-> HIGH, pin2 |-> LOW, active |-> TRUE, elapsed |-> 0]
           ELSE [pin1 |-> motorPin1, pin2 |-> motorPin2, active |-> isMotorActive,
                 elapsed |-> motorElapsed]

\* The small-target rule compared against the wrong threshold.
forcesFineControlBelowWindow == desiredWeight <= NEAR_TARGET_WINDOW

\* if(desiredWeight <= 600)
forcesFineControl == desiredWeight <= FINE_TARGET_LIMIT

\* Completion only above the target.
targetReachedStrictly(weight) == weight > desiredWeight

\* if (measuredWeight >= desiredWeight)
targetReached(weight) == weight >= desiredWeight

\* Fine control recomputed from the proximity on every poll.
nextFineControlModeByProximity(fine, weight) ==
  forcesFineControl \/ weight > desiredWeight - FINE_ENTRY_WINDOW

\* The proximity comparison made non-strict.
nextFineControlModeAtWindow(fine, weight) ==
  fine \/ weight >= desiredWeight - FINE_ENTRY_WINDOW

\* else if (measuredWeight > desiredWeight - 500 && !fineControlMode) fineControlMode = true
nextFineControlMode(fine, weight) == fine \/ weight > desiredWeight - FINE_ENTRY_WINDOW

\* The near-target comparison made strict.
pulseWidthStrict(weight) ==
  IF weight > desiredWeight - NEAR_TARGET_WINDOW THEN SHORT_PULSE ELSE LONG_PULSE

\* preciseDispensing(20) if measuredWeight >= desiredWeight - 200, else preciseDispensing(80)
pulseWidth(weight) ==
  IF weight >= desiredWeight - NEAR_TARGET_WINDOW THEN SHORT_PULSE ELSE LONG_PULSE

\* update and reading are what weightSensor.update() and weightSensor.getData()
\* answer if this poll calls them.
controlDispensing(update, reading) ==
  /\ currentMode = DISPENSING
  /\ LET sampling == measureElapsed >= SENSOR_READ_DELAY
         weight == IF sampling /\ update THEN abs(reading) ELSE measuredWeight
         fine == fineControlMode \/ forcesFineControl
         idle == [pin1 |-> motorPin1, pin2 |-> motorPin2, active |-> isMotorActive,
                  elapsed |-> motorElapsed]
         drive == IF fine THEN preciseDispensing(pulseWidth(weight)) ELSE idle
     IN /\ measuredWeight' = weight
        /\ measureElapsed' = IF sampling THEN 0 ELSE measureElapsed
        /\ isMotorActive' = drive.active
        /\ motorElapsed' = drive.elapsed
        /\ IF targetReached(weight)
             THEN \* turnMotorOff(); currentMode = FINISHED; completionTime = millis()
                  /\ motorPin1' = turnMotorOff.pin1
                  /\ motorPin2' = turnMotorOff.pin2
                  /\ isMotorOn' = turnMotorOff.on
                  /\ currentMode' = FINISHED
                  /\ completionElapsed' = 0
                  /\ fineControlMode' = fine
             ELSE /\ motorPin1' = drive.pin1
                  /\ motorPin2' = drive.pin2
                  /\ fineControlMode' = nextFineControlMode(fine, weight)
                  /\ UNCHANGED <<isMotorOn, currentMode, completionElapsed>>
  /\ UNCHANGED <<desiredWeight, userInput, isTaring, tareElapsed, zeroingElapsed,
                 lastKey>>

(* ------------------------------------------------------------------ *)
(* FINISHED: showCompletion()                                          *)
(* ------------------------------------------------------------------ *)
\* A dwell of half the time.
dwellElapsedEarly == completionElapsed >= COMPLETION_DWELL \div 2

\* millis() - completionTime >= 5000
dwellElapsed == completionElapsed >= COMPLETION_DWELL

showCompletion ==
  /\ currentMode = FINISHED
  /\ IF dwellElapsed
       THEN /\ restartSystem
            /\ completionElapsed' = 0
       ELSE UNCHANGED <<currentMode, desiredWeight, measuredWeight, userInput,
                        fineControlMode, isMotorOn, motorPin1, motorPin2,
                        completionElapsed>>
  /\ UNCHANGED <<isTaring, tareElapsed, measureElapsed, isMotorActive, motorElapsed,
                 zeroingElapsed, lastKey>>

(* ------------------------------------------------------------------ *)
(* Time                                                                *)
(* ------------------------------------------------------------------ *)
Tick(dt) ==
  /\ tareElapsed' = IF isTaring THEN Min(tareElapsed + dt, TARE_TIMEOUT + 1) ELSE tareElapsed
  /\ zeroingElapsed' =
       IF currentMode = ZEROING THEN Min(zeroingElapsed + dt, TARE_TIMEOUT + 1)
       ELSE zeroingElapsed
  /\ measureElapsed' = Min(measureElapsed + dt, SENSOR_READ_DELAY)
  /\ motorElapsed' = Min(motorElapsed + dt, offTime)
  /\ completionElapsed' =
       IF currentMode = FINISHED THEN Min(completionElapsed + dt, COMPLETION_DWELL)
       ELSE completionElapsed
  /\ UNCHANGED <<currentMode, desiredWeight, measuredWeight, userInput, fineControlMode,
                 isMotorOn, motorPin1, motorPin2, isTaring, isMotorActive, lastKey>>

Next ==
  \/ \E pressedKey \in PressedKeys \cup {NO_KEY} : processUserInput(pressedKey)
  \/ \E update \in BOOLEAN, tareStatus \in BOOLEAN : performTaring(update, tareStatus)
  \/ \E update \in BOOLEAN, reading \in Readings : controlDispensing(update, reading)
  \/ showCompletion
  \/ \E dt \in LoopDelays(currentMode) : Tick(dt)

Spec == Init /\ [][Next]_vars

\* loop() is called again and again and millis() advances: time passes while a
\* timer is still short of its limit, and the Zeroing handler is polled.  The
\* poll that is fair is the one in which the sensor reports nothing, so the
\* sensor is never made to complete the tare.
FairSpec ==
  /\ Spec
  /\ WF_vars(\E dt \in LoopDelays(currentMode) : Tick(dt))
  /\ WF_vars(performTaring(FALSE, FALSE))

TypeOK ==
  /\ currentMode \in SystemMode
  /\ desiredWeight \in Nat
  /\ measuredWeight \in Nat
  /\ fineControlMode \in BOOLEAN
  /\ isMotorOn \in BOOLEAN
  /\ motorPin1 \in {LOW, HIGH}
  /\ motorPin2 \in {LOW, HIGH}
  /\ isTaring \in BOOLEAN
  /\ isMotorActive \in BOOLEAN
  /\ tareElapsed \in 0..(TARE_TIMEOUT + 1)
  /\ zeroingElapsed \in 0..(TARE_TIMEOUT + 1)
  /\ measureElapsed \in 0..SENSOR_READ_DELAY
  /\ motorElapsed \in 0..offTime
  /\ completionElapsed \in 0..COMPLETION_DWELL
  /\ lastKey \in keypadButtons \cup {NO_KEY}

\* The keypad delivers no '.', so the buffer never holds anything but digits.
BufferHoldsDigitsOnly == \A i \in 1..Len(userInput) : isdigit(userInput[i])

(* ------------------------------------------------------------------ *)
(* The handlers as steps, whatever the gateways answer                  *)
(* ------------------------------------------------------------------ *)
ZeroingPoll == \E update \in BOOLEAN, tareStatus \in BOOLEAN : performTaring(update, tareStatus)
DispensingPoll == \E update \in BOOLEAN, reading \in Readings : controlDispensing(update, reading)
ResetStep == currentMode # WEIGHT_INPUT /\ currentMode' = WEIGHT_INPUT

\* The value of a digit sequence, position by position.
Pow10(n) == IF n = 0 THEN 1 ELSE IF n = 1 THEN 10 ELSE IF n = 2 THEN 100
            ELSE IF n = 3 THEN 1000 ELSE IF n = 4 THEN 10000 ELSE 100000
RECURSIVE SumTo(_, _)
SumTo(f, n) == IF n = 0 THEN 0 ELSE f[n] + SumTo(f, n - 1)
DecimalValue(s) ==
  SumTo([i \in 1..Len(s) |-> DigitValue[s[i]] * Pow10(Len(s) - i)], Len(s))

(* ------------------------------------------------------------------ *)
(* C1                                                                  *)
(* ------------------------------------------------------------------ *)
\* C1: in every Zeroing episode, also one that follows a tare timeout and reset,
\* a poll taken before 10 s have passed since the state became Zeroing, at which
\* the gateway has a new reading with tare complete, moves the state to
\* Dispensing (or is the episode's first poll, which issues the tare command).
C1_TareCompleteReachesDispensing ==
  [][(zeroingElapsed < TARE_TIMEOUT /\ performTaring(TRUE, TRUE))
       => \/ currentMode' = DISPENSING
          \/ (~isTaring /\ isTaring' /\ currentMode' = ZEROING)]_vars

(* ------------------------------------------------------------------ *)
(* C2                                                                  *)
(* ------------------------------------------------------------------ *)
\* C2: a Zeroing poll taken more than 10 s after the tare start runs the full
\* reset: state Input, target 0, current mass 0, empty buffer, fine control off,
\* actuator disabled.
C2_TareTimeoutRunsFullReset ==
  [][(ZeroingPoll /\ isTaring /\ tareElapsed > TARE_TIMEOUT)
       => /\ currentMode' = WEIGHT_INPUT
          /\ desiredWeight' = 0
          /\ measuredWeight' = 0
          /\ userInput' = <<>>
          /\ fineControlMode' = FALSE
          /\ isMotorOn' = FALSE
          /\ motorPin1' = LOW
          /\ motorPin2' = LOW]_vars

\* Only the timeout path leaves isTaring set in the Input state.
C2_Witness ==
  /\ currentMode = WEIGHT_INPUT
  /\ isTaring
  /\ tareElapsed > TARE_TIMEOUT
  /\ userInput = <<>>
  /\ desiredWeight = 0

(* ------------------------------------------------------------------ *)
(* C3                                                                  *)
(* ------------------------------------------------------------------ *)
\* C3: a Dispensing poll moves the state to Finished if and only if the mass it
\* holds after its sampling step is at least the target, fine control or not.
C3_FinishedIffTargetReached ==
  [][DispensingPoll => (currentMode' = FINISHED <=> measuredWeight' >= desiredWeight)]_vars

\* A cycle that finished without ever entering fine control.
C3_Witness ==
  /\ currentMode = FINISHED
  /\ ~fineControlMode
  /\ measuredWeight >= desiredWeight
  /\ desiredWeight > FINE_TARGET_LIMIT

(* ------------------------------------------------------------------ *)
(* C4                                                                  *)
(* ------------------------------------------------------------------ *)
\* C4: a step that is not the full reset never turns fineControlMode off.
C4_FineControlMonotonic ==
  [][(fineControlMode /\ ~ResetStep) => fineControlMode']_vars

\* Fine control entered by proximity and kept although the mass fell back
\* below the proximity threshold.
C4_Witness ==
  /\ currentMode = DISPENSING
  /\ fineControlMode
  /\ desiredWeight > FINE_TARGET_LIMIT
  /\ measuredWeight <= desiredWeight - FINE_ENTRY_WINDOW

(* ------------------------------------------------------------------ *)
(* C5                                                                  *)
(* ------------------------------------------------------------------ *)
\* C5: '#' in Input on a buffer of 1..6 digits whose value is positive sets the
\* target to that value and moves to Zeroing; on a value of 0, or on an empty
\* buffer, the state stays Input.
C5_FinalizeSetsTarget ==
  [][processUserInput("#")
       => IF Len(userInput) \in 1..MAX_INPUT_LENGTH /\ DecimalValue(userInput) > 0
            THEN desiredWeight' = DecimalValue(userInput) /\ currentMode' = ZEROING
            ELSE currentMode' = WEIGHT_INPUT]_vars

\* A six-digit entry accepted by '#'.
C5_Witness ==
  /\ currentMode = ZEROING
  /\ lastKey = "#"
  /\ Len(userInput) = MAX_INPUT_LENGTH
  /\ desiredWeight = DecimalValue(userInput)
  /\ zeroingElapsed = 0
  /\ ~isTaring

(* ------------------------------------------------------------------ *)
(* C6                                                                  *)
(* ------------------------------------------------------------------ *)
\* C6 as stated: right after '#' accepts an entry and the state becomes Zeroing,
\* the buffer is empty.
C6_BufferClearedOnFinalize ==
  [][(processUserInput("#") /\ currentMode' = ZEROING) => userInput' = <<>>]_vars

\* C6 as amended: '#' leaves the buffer as it is, so right after an entry is
\* accepted the buffer still holds it; the buffer is emptied by the full reset
\* that returns the state to Input.
C6_BufferKeptUntilReset ==
  [][/\ (processUserInput("#") /\ currentMode' = ZEROING)
          => (userInput' = userInput /\ userInput' # <<>>)
     /\ ResetStep => userInput' = <<>>]_vars

C6_Witness ==
  /\ currentMode = ZEROING
  /\ lastKey = "#"
  /\ userInput # <<>>
  /\ desiredWeight = DecimalValue(userInput)
  /\ zeroingElapsed = 0
  /\ isTaring

(* ------------------------------------------------------------------ *)
(* C7                                                                  *)
(* ------------------------------------------------------------------ *)
\* C7: '*' in Input leaves the buffer empty and the state Input, whatever the
\* buffer held.
C7_CancelEmptiesBuffer ==
  [][processUserInput("*") => (userInput' = <<>> /\ currentMode' = WEIGHT_INPUT)]_vars

\* '*' was the last key pressed.
C7_Witness ==
  /\ currentMode = WEIGHT_INPUT
  /\ lastKey = "*"
  /\ userInput = <<>>

PinLevel(active) == IF active THEN HIGH ELSE LOW

\* C9: with a target of at most 600 every Dispensing poll, the first included,
\* leaves fineControlMode set, whatever the mass, and hands the actuator to the
\* pulsed drive: while the state stays Dispensing the pin is high exactly in the
\* drive's on phase.
C9_SmallTargetForcesFineControl ==
  [][(DispensingPoll /\ desiredWeight <= FINE_TARGET_LIMIT)
       => /\ fineControlMode'
          /\ currentMode' = DISPENSING => motorPin1' = PinLevel(isMotorActive')]_vars

\* Fine control on although the mass is not within 500 of the target, the
\* drive in its off phase.
C9_Witness ==
  /\ currentMode = DISPENSING
  /\ desiredWeight <= FINE_TARGET_LIMIT
  /\ fineControlMode
  /\ measuredWeight <= desiredWeight - FINE_ENTRY_WINDOW
  /\ motorPin1 = LOW
  /\ ~isMotorActive

(* ------------------------------------------------------------------ *)
(* C10                                                                 *)
(* ------------------------------------------------------------------ *)
\* The on-duration the next pulsed-drive call is given.
OnDuration(weight) ==
  IF weight >= desiredWeight - NEAR_TARGET_WINDOW THEN SHORT_PULSE ELSE LONG_PULSE

\* C10 as stated: under fine control in Dispensing the actuator is never on for
\* longer than the on-duration (20 ms, or 80 ms) within one period.
C10_OnPhaseAtMostOnDuration ==
  (currentMode = DISPENSING /\ fineControlMode /\ isMotorActive /\ motorPin1 = HIGH)
    => motorElapsed <= OnDuration(measuredWeight)

\* C10 as amended: a pulsed-drive call ends the on phase if and only if at least
\* the on-duration has passed since the drive's last phase change, and starts one
\* only if at least 200 ms have passed since it: an on phase lasts at least the
\* on-duration, and longer by the time the loop takes to poll again.
C10_PhasesLastAtLeastTheirDuration ==
  [][DispensingPoll
       => LET called == fineControlMode \/ desiredWeight <= FINE_TARGET_LIMIT
              onTime == OnDuration(measuredWeight')
          IN /\ (isMotorActive /\ ~isMotorActive') => motorElapsed >= onTime
             /\ (isMotorActive /\ called /\ motorElapsed >= onTime) => ~isMotorActive'
             /\ (~isMotorActive /\ isMotorActive') => motorElapsed >= offTime]_vars

\* An on phase with the short on-duration in force that already lasts longer.
C10_Witness ==
  /\ currentMode = DISPENSING
  /\ fineControlMode
  /\ isMotorActive
  /\ motorPin1 = HIGH
  /\ OnDuration(measuredWeight) = SHORT_PULSE
  /\ motorElapsed > SHORT_PULSE

(* ------------------------------------------------------------------ *)
(* C11                                                                 *)
(* ------------------------------------------------------------------ *)
\* The state the full reset leaves.
ResetState ==
  /\ currentMode = WEIGHT_INPUT
  /\ desiredWeight = 0
  /\ measuredWeight = 0
  /\ userInput = <<>>
  /\ fineControlMode = FALSE

\* C11: while less than 5000 ms have passed since the completion stamp no step
\* leaves Finished, and a Finished poll at or after 5000 ms runs the full reset.
C11_FinishedIsTimedDwell ==
  [][currentMode = FINISHED
       => /\ completionElapsed < COMPLETION_DWELL => currentMode' = FINISHED
          /\ (showCompletion /\ completionElapsed >= COMPLETION_DWELL) => ResetState']_vars

\* Back in Input after a cycle whose pulsed drive ended in its on phase: only a
\* reset out of Finished leaves that.
C11_Witness ==
  /\ ResetState
  /\ isMotorActive
  /\ ~isTaring
  /\ motorPin1 = LOW

(* ------------------------------------------------------------------ *)
(* C12                                                                 *)
(* ------------------------------------------------------------------ *)
Entry500 == <<"5", "0", "0">>

\* The steps of the 5,0,0,# scenario that do not depend on how fine control is
\* entered: '#' sets the target 500 and starts Zeroing; tare success starts
\* Dispensing at full power; the on phase is 20 ms once the mass is 300 and 80 ms
\* below; a mass of 500 or more stops the actuator and ends in Finished; the
\* Finished poll after 5000 ms resets to Input.
C12_ScenarioSteps ==
  /\ processUserInput("#") => (desiredWeight' = 500 /\ currentMode' = ZEROING)
  /\ (ZeroingPoll /\ currentMode' = DISPENSING)
       => (motorPin1' = HIGH /\ isMotorOn' /\ ~fineControlMode')
  /\ DispensingPoll
       => /\ (isMotorActive /\ ~isMotorActive')
               => motorElapsed >= (IF measuredWeight' >= 300 THEN 20 ELSE 80)
          /\ (isMotorActive /\ measuredWeight' >= 300 /\ motorElapsed >= 20)
               => ~isMotorActive'
          /\ measuredWeight' >= 500
               => (currentMode' = FINISHED /\ motorPin1' = LOW /\ motorPin2' = LOW)
  /\ (showCompletion /\ completionElapsed >= 5000) => currentMode' = WEIGHT_INPUT

\* C12 as stated: in the 5,0,0,# scenario rule 1 does not force fine control, and
\* fine control is entered by the proximity rule.
C12_ScenarioAsStated ==
  [][userInput = Entry500
       => /\ C12_ScenarioSteps
          /\ DispensingPoll
               => /\ ~forcesFineControl
                  /\ (~fineControlMode /\ fineControlMode')
                       => measuredWeight' > desiredWeight - FINE_ENTRY_WINDOW]_vars

\* C12 as amended: in the 5,0,0,# scenario every Dispensing poll, the first
\* included, leaves fine control on by rule 1 (500 <= 600), also at a mass of 0,
\* where the proximity rule (mass > target - 500) is not met.
C12_ScenarioWithRule1 ==
  [][userInput = Entry500
       => /\ C12_ScenarioSteps
          /\ DispensingPoll => (forcesFineControl /\ fineControlMode')]_vars

\* The scenario at its end: target 500 reached, the dwell elapsed.
C12_Witness ==
  /\ currentMode = FINISHED
  /\ userInput = Entry500
  /\ desiredWeight = 500
  /\ measuredWeight = 500
  /\ fineControlMode
  /\ completionElapsed = COMPLETION_DWELL

(* ------------------------------------------------------------------ *)
(* C13                                                                 *)
(* ------------------------------------------------------------------ *)
\* C13: outside Dispensing both motor pins are low.
C13_ActuatorOffOutsideDispensing ==
  currentMode \in {WEIGHT_INPUT, ZEROING, FINISHED}
    => (motorPin1 = LOW /\ motorPin2 = LOW)

\* The target was reached while the pulsed drive was in its on phase: the pin
\* is low in Finished although the drive's flag is still set.
C13_Witness ==
  /\ currentMode = FINISHED
  /\ isMotorActive
  /\ motorElapsed = 0
  /\ motorPin1 = LOW
  /\ motorPin2 = LOW
  /\ completionElapsed = 0

(* ------------------------------------------------------------------ *)
(* C14                                                                 *)
(* ------------------------------------------------------------------ *)
\* C14: in every Zeroing episode, also one after a timed-out episode, a poll
\* that finds no tare in progress issues the tare command, stamps the tare start
\* and sets isTaring; a tare found in progress was started by a poll of this
\* episode (its stamp is not older than the episode), and no poll aborts the
\* episode to Input before more than 10 s have passed since it began.
C14_TareStartedInEveryEpisode ==
  [][ZeroingPoll
       => /\ ~isTaring => (isTaring' /\ tareElapsed' = 0 /\ currentMode' = ZEROING)
          /\ isTaring => tareElapsed <= zeroingElapsed
          /\ currentMode' = WEIGHT_INPUT => zeroingElapsed > TARE_TIMEOUT]_vars

(* ------------------------------------------------------------------ *)
(* C15                                                                 *)
(* ------------------------------------------------------------------ *)
\* C15 as stated: with a target above 600, every Dispensing poll that holds a
\* mass of at most target-500 leaves fine control off and the actuator on at
\* full power.  Fine control is sticky, so a mass that falls back after fine
\* control was entered refutes it.
C15_FullPowerWheneverFarFromTarget ==
  [][(DispensingPoll /\ desiredWeight > FINE_TARGET_LIMIT
        /\ measuredWeight' <= desiredWeight - FINE_ENTRY_WINDOW)
       => (~fineControlMode' /\ motorPin1' = HIGH /\ motorPin2' = LOW /\ isMotorOn')]_vars

\* C15: with a target above 600 and fine control not yet entered, a Dispensing
\* poll that holds a mass of at most target-500 leaves fine control off and the
\* actuator on at full power, and fine control is entered by exactly the polls
\* that hold a mass above target-500 and below the target.
C15_LargeTargetEntersFineByProximity ==
  [][(DispensingPoll /\ desiredWeight > FINE_TARGET_LIMIT /\ ~fineControlMode)
       => /\ measuredWeight' <= desiredWeight - FINE_ENTRY_WINDOW
               => (~fineControlMode' /\ motorPin1' = HIGH /\ motorPin2' = LOW /\ isMotorOn')
          /\ fineControlMode'
               <=> (desiredWeight - FINE_ENTRY_WINDOW < measuredWeight'
                      /\ measuredWeight' < desiredWeight)]_vars

\* A sampled mass exactly at target-500: still full power, fine control off.
C15_Witness ==
  /\ currentMode = DISPENSING
  /\ desiredWeight > FINE_TARGET_LIMIT
  /\ measuredWeight > 0
  /\ measuredWeight = desiredWeight - FINE_ENTRY_WINDOW
  /\ ~fineControlMode
  /\ motorPin1 = HIGH

(* ------------------------------------------------------------------ *)
(* C16                                                                 *)
(* ------------------------------------------------------------------ *)
\* What one call of a two-phase drive with the given durations does to its
\* phase flag and to the time since its last phase change.
PulsedDriveStep(active, elapsed, onDuration, offDuration) ==
  IF active /\ elapsed >= onDuration THEN <<FALSE, 0>>
  ELSE IF ~active /\ elapsed >= offDuration THEN <<TRUE, 0>>
  ELSE <<active, elapsed>>

\* C16: a Dispensing poll with fine control on (after the small-target rule)
\* calls the pulsed drive once, with on-duration 20 if the mass it holds is at
\* least target-200 and 80 otherwise; a poll with fine control off does not call
\* it: the drive's phase and stamp stay as they were, and so does the pin while
\* the state stays Dispensing.
C16_PulseWidthByProximity ==
  [][DispensingPoll
       => IF fineControlMode \/ desiredWeight <= FINE_TARGET_LIMIT
            THEN <<isMotorActive', motorElapsed'>> =
                   PulsedDriveStep(isMotorActive, motorElapsed,
                     IF measuredWeight' >= desiredWeight - 200 THEN 20 ELSE 80, 200)
            ELSE /\ UNCHANGED <<isMotorActive, motorElapsed>>
                 /\ currentMode' = DISPENSING => UNCHANGED motorPin1]_vars

\* The mass exactly at target-200 and an on phase that was ended at 20 ms: the
\* drive is idle, its stamp fresh, the pin low.
C16_Witness ==
  /\ currentMode = DISPENSING
  /\ fineControlMode
  /\ measuredWeight > 0
  /\ measuredWeight = desiredWeight - NEAR_TARGET_WINDOW
  /\ ~isMotorActive
  /\ motorElapsed = 0
  /\ motorPin1 = LOW

(* ------------------------------------------------------------------ *)
(* C17                                                                 *)
(* ------------------------------------------------------------------ *)
StateTransitions ==
  { <<WEIGHT_INPUT, ZEROING>>, <<ZEROING, DISPENSING>>, <<ZEROING, WEIGHT_INPUT>>,
    <<DISPENSING, FINISHED>>, <<FINISHED, WEIGHT_INPUT>> }

\* C17: the state changes only along Input->Zeroing, Zeroing->Dispensing,
\* Zeroing->Input, Dispensing->Finished and Finished->Input; while the state is
\* Zeroing, Dispensing or Finished no key is taken, and the target and the
\* buffer change only in the step that resets to Input.
C17_OnlyListedTransitions ==
  [][/\ currentMode' # currentMode => <<currentMode, currentMode'>> \in StateTransitions
     /\ currentMode \in {ZEROING, DISPENSING, FINISHED}
          => /\ lastKey' = lastKey
             /\ currentMode' # WEIGHT_INPUT => UNCHANGED <<desiredWeight, userInput>>]_vars

\* Back in Input after a run that went through Dispensing and Finished and a
\* later one that timed out in Zeroing: all five transitions have been taken.
C17_Witness ==
  /\ currentMode = WEIGHT_INPUT
  /\ isTaring
  /\ isMotorActive
  /\ lastKey = "#"
  /\ userInput = <<>>

(* ------------------------------------------------------------------ *)
(* C18                                                                 *)
(* ------------------------------------------------------------------ *)
Magnitudes == {IF r < 0 THEN 0 - r ELSE r : r \in Readings}

\* C18: the measured mass changes only in a Dispensing poll that samples (200 ms
\* since the last sample), to the magnitude of a reading, never negative, or in
\* the step that resets to Input, to 0; every other step leaves it alone.
C18_MassChangesOnlyBySampleOrReset ==
  [][/\ measuredWeight' >= 0
     /\ measuredWeight' # measuredWeight
          => \/ /\ DispensingPoll
                /\ measureElapsed >= SENSOR_READ_DELAY
                /\ measuredWeight' \in Magnitudes
             \/ /\ ResetStep
                /\ measuredWeight' = 0]_vars

\* The reading -500 sampled against a target of 5000: the mass held is 500.
C18_Witness ==
  /\ currentMode = DISPENSING
  /\ desiredWeight = 5000
  /\ measuredWeight = 500
  /\ measureElapsed = 0

(* ------------------------------------------------------------------ *)
(* C20                                                                 *)
(* ------------------------------------------------------------------ *)
\* C20: in Zeroing, Dispensing and Finished the target is positive; in Input
\* the target is 0.
C20_TargetPositiveOutsideInput ==
  /\ currentMode \in {ZEROING, DISPENSING, FINISHED} => desiredWeight > 0
  /\ currentMode = WEIGHT_INPUT => desiredWeight = 0

\* A buffer of zeros finalized and rejected after an earlier run was reset:
\* still Input, target 0.
C20_Witness ==
  /\ currentMode = WEIGHT_INPUT
  /\ lastKey = "#"
  /\ userInput # <<>>
  /\ desiredWeight = 0
  /\ isMotorActive

(* ------------------------------------------------------------------ *)
(* C19                                                                 *)
(* ------------------------------------------------------------------ *)
\* C19: while time advances and the loop keeps polling, a Zeroing episode
\* always ends, in Dispensing or in Input, whatever the sensor reports.
C19_ZeroingEnds ==
  (currentMode = ZEROING) ~> (currentMode \in {DISPENSING, WEIGHT_INPUT})

\* An episode ended by the timeout with the sensor silent throughout, in a run
\* that never dispensed.
C19_Witness ==
  /\ currentMode = WEIGHT_INPUT
  /\ isTaring
  /\ tareElapsed > TARE_TIMEOUT
  /\ ~isMotorActive
  /\ measureElapsed = SENSOR_READ_DELAY
  /\ lastKey = "#"
====
